---- MODULE Spec2Model ----
(***************************************************************************)
(* A model of private_ip_statistics.py: the private-address classifier,    *)
(* the bandwidth codec (convert_bandwidth_to_bytes / format_bandwidth),    *)
(* the row filter of parse_awstats_monthly_page and the year/month loop of *)
(* fetch_and_save_monthly_data followed by create_bandwidth_graph.         *)
(*                                                                         *)
(* Text is modelled as a sequence of one-character strings, so that the    *)
(* regular expressions, strip(), upper(), split(), int(), float() and the  *)
(* f-string renderings are computed character by character.                *)
(*                                                                         *)
(* Byte counts exceed 32 bits (1024^4), so a byte count is a tuple of five *)
(* base-1024 limbs <<l0, l1, l2, l3, l4>>, least significant first, with   *)
(* l0..l3 in 0..1023 and l4 (the count of whole TB) unbounded.  Python's   *)
(* float arithmetic is modelled exactly: every magnitude used here has at  *)
(* most a handful of digits and every product is below 2^53, where         *)
(* multiplying or dividing by a power of 1024 is exact in binary floating  *)
(* point.                                                                  *)
(***************************************************************************)
EXTENDS Integers, Sequences, FiniteSets, TLC

\* ------------------------------------------------------------- characters

DigitChars == <<"0", "1", "2", "3", "4", "5", "6", "7", "8", "9">>

Digits == {DigitChars[i] : i \in 1..10}

DigitVal(c) == (CHOOSE i \in 1..10 : DigitChars[i] = c) - 1

\* the characters \s matches and strip() removes (those the inputs use)
Whitespace == {" ", "\t", "\n"}

LowerChars == <<"a", "b", "c", "d", "e", "f", "g", "h", "i", "j", "k", "l", "m",
                "n", "o", "p", "q", "r", "s", "t", "u", "v", "w", "x", "y", "z">>

UpperChars == <<"A", "B", "C", "D", "E", "F", "G", "H", "I", "J", "K", "L", "M",
                "N", "O", "P", "Q", "R", "S", "T", "U", "V", "W", "X", "Y", "Z">>

\* str.upper(), one character
UpperChar(c) ==
    IF \E i \in 1..26 : LowerChars[i] = c
    THEN UpperChars[CHOOSE i \in 1..26 : LowerChars[i] = c]
    ELSE c

\* str.upper()
Upper(s) == [i \in 1..Len(s) |-> UpperChar(s[i])]

\* str.strip(): drop leading and trailing whitespace
Strip(s) ==
    LET keep == {i \in 1..Len(s) : s[i] \notin Whitespace}
    IN  IF keep = {} THEN <<>>
        ELSE LET lo == CHOOSE i \in keep : \A j \in keep : i <= j
                 hi == CHOOSE i \in keep : \A j \in keep : j <= i
             IN  SubSeq(s, lo, hi)

\* s[i..] starts with the text p
StartsWithAt(s, i, p) ==
    /\ i + Len(p) - 1 <= Len(s)
    /\ \A k \in 1..Len(p) : s[i + k - 1] = p[k]

\* str.split(sep) for a one-character separator
RECURSIVE Split(_, _)
Split(s, sep) ==
    IF \A i \in 1..Len(s) : s[i] # sep THEN <<s>>
    ELSE LET p == CHOOSE i \in 1..Len(s) :
                      s[i] = sep /\ \A j \in 1..(i - 1) : s[j] # sep
         IN  <<SubSeq(s, 1, p - 1)>> \o Split(SubSeq(s, p + 1, Len(s)), sep)

\* the value of a run of decimal digits (0 for the empty run)
RECURSIVE DecValue(_)
DecValue(s) ==
    IF Len(s) = 0 THEN 0
    ELSE 10 * DecValue(SubSeq(s, 1, Len(s) - 1)) + DigitVal(s[Len(s)])

\* int(text): surrounding whitespace is ignored, the rest must be digits
\* (only ever applied to text the pattern of is_private_ip accepted)
PyInt(s) == DecValue(Strip(s))

\* str(n) for n >= 0
RECURSIVE IntToStr(_)
IntToStr(n) ==
    IF n < 10 THEN <<DigitChars[n + 1]>>
    ELSE IntToStr(n \div 10) \o <<DigitChars[(n % 10) + 1]>>

\* f"{n:02d}" for n >= 0
Pad2(n) == IF n < 10 THEN <<"0">> \o IntToStr(n) ELSE IntToStr(n)

RECURSIVE Pow(_, _)
Pow(b, e) == IF e = 0 THEN 1 ELSE b * Pow(b, e - 1)

Max(a, b) == IF a >= b THEN a ELSE b

\* ---------------------------------------------------------- is_private_ip

\* positions just after \d{1,3} matched from any position of P, within s[1..n]
AfterDigits(s, n, P) ==
    {j \in 1..(n + 1) : \E p \in P :
        /\ j - p \in 1..3
        /\ \A k \in p..(j - 1) : s[k] \in Digits}

\* positions just after \. matched from any position of P, within s[1..n]
AfterDot(s, n, P) == {p + 1 : p \in {q \in P : q <= n /\ s[q] = "."}}

\* positions just after one (\d{1,3}\.) group
AfterGroup(s, n, P) == AfterDot(s, n, AfterDigits(s, n, P))

\* s[1..n] is exactly (\d{1,3}\.){3}\d{1,3}
QuadMatches(s, n) ==
    (n + 1) \in AfterDigits(s, n,
                   AfterGroup(s, n, AfterGroup(s, n, AfterGroup(s, n, {1}))))

\* ip_pattern.match(ip) for r'^(\d{1,3}\.){3}\d{1,3}$': in Python "$" matches
\* at the end of the text and also just before a newline that ends the text
ip_pattern_match(ip) ==
    \/ QuadMatches(ip, Len(ip))
    \/ /\ Len(ip) > 0
       /\ ip[Len(ip)] = "\n"
       /\ QuadMatches(ip, Len(ip) - 1)

\* mutant: 16 < parts[1] in place of 16 <= parts[1]
private_range_exclusive(parts) ==
    \/ parts[1] = 10
    \/ parts[1] = 172 /\ 16 < parts[2] /\ parts[2] <= 31
    \/ parts[1] = 192 /\ parts[2] = 168

\* the octet tests, on parts = [int(part) for part in ip.split('.')]
private_range(parts) ==
    \/ parts[1] = 10
    \/ parts[1] = 172 /\ 16 <= parts[2] /\ parts[2] <= 31
    \/ parts[1] = 192 /\ parts[2] = 168

is_private_ip(ip) ==
    IF ~ip_pattern_match(ip) THEN FALSE
    ELSE LET split == Split(ip, ".")
             parts == [i \in 1..Len(split) |-> PyInt(split[i])]
         IN  private_range(parts)

\* ------------------------------------------------- byte counts (5 limbs)

Base == 1024

Zero == <<0, 0, 0, 0, 0>>

\* carries propagated upwards; the top limb absorbs the rest
Normalize(b) ==
    LET c1 == b[1] \div Base
        c2 == (b[2] + c1) \div Base
        c3 == (b[3] + c2) \div Base
        c4 == (b[4] + c3) \div Base
    IN  <<b[1] % Base, (b[2] + c1) % Base, (b[3] + c2) % Base,
          (b[4] + c3) % Base, b[5] + c4>>

BigAdd(a, b) == Normalize([i \in 1..5 |-> a[i] + b[i]])

\* b * c for a small factor c
BigMulSmall(b, c) == Normalize([i \in 1..5 |-> b[i] * c])

\* n * 1024^k for an integer n >= 0 and k in 0..4
BigShift(n, k) == Normalize([i \in 1..5 |-> IF i = k + 1 THEN n ELSE 0])

\* floor(b / d) for a small divisor d: long division from the top limb down
BigDivSmall(b, d) ==
    LET r5 == b[5] % d
        r4 == (r5 * Base + b[4]) % d
        r3 == (r4 * Base + b[3]) % d
        r2 == (r3 * Base + b[2]) % d
    IN  <<(r2 * Base + b[1]) \div d, (r3 * Base + b[2]) \div d,
          (r4 * Base + b[3]) \div d, (r5 * Base + b[4]) \div d, b[5] \div d>>

\* a < b: compare from the top limb down
BigLess(a, b) ==
    \E i \in 1..5 : a[i] < b[i] /\ \A j \in (i + 1)..5 : a[j] = b[j]

BigLeq(a, b) == a = b \/ BigLess(a, b)

\* --------------------------------------------- convert_bandwidth_to_bytes

\* the alternatives of (TB|GB|MB|KB|B), in the order the pattern tries them
Units == << <<"T", "B">>, <<"G", "B">>, <<"M", "B">>, <<"K", "B">>, <<"B">> >>

\* the class [\d\.]
NumChars == Digits \cup {"."}

\* every way r'([\d\.]+)\s*(TB|GB|MB|KB|B)' matches a prefix of s, as
\* <<end of group 1, end of the whitespace, alternative taken>>
bandwidth_matches(s) ==
    {c \in (1..Len(s)) \X (1..Len(s)) \X (1..Len(Units)) :
        /\ \A k \in 1..c[1] : s[k] \in NumChars
        /\ c[1] <= c[2]
        /\ \A k \in (c[1] + 1)..c[2] : s[k] \in Whitespace
        /\ StartsWithAt(s, c[2] + 1, Units[c[3]])}

\* the order in which the backtracking matcher reaches two matches: greedy
\* group 1, then greedy whitespace, then the alternatives left to right
TriedBefore(a, b) ==
    \/ a[1] > b[1]
    \/ a[1] = b[1] /\ a[2] > b[2]
    \/ a[1] = b[1] /\ a[2] = b[2] /\ a[3] <= b[3]

\* re.match(...): the first match reached, or none
bandwidth_match(s) ==
    LET all == bandwidth_matches(s)
    IN  IF all = {} THEN [matched |-> FALSE, group1 |-> <<>>, group2 |-> <<>>]
        ELSE LET m == CHOOSE a \in all : \A b \in all : TriedBefore(a, b)
             IN  [matched |-> TRUE,
                  group1  |-> SubSeq(s, 1, m[1]),
                  group2  |-> Units[m[3]]]

\* float(text) for text over [\d\.]: a ValueError unless the text holds at
\* least one digit and at most one dot; otherwise the value is num / 10^dec
PyFloat(g) ==
    LET dots   == {i \in 1..Len(g) : g[i] = "."}
        digits == SelectSeq(g, LAMBDA c : c \in Digits)
    IN  IF Cardinality(dots) > 1 \/ Len(digits) = 0
        THEN [ok |-> FALSE, num |-> 0, dec |-> 0]
        ELSE [ok  |-> TRUE,
              num |-> DecValue(digits),
              dec |-> IF dots = {} THEN 0
                      ELSE Len(g) - (CHOOSE i \in dots : TRUE)]

\* the if/elif chain on the unit: the power of 1024 the value is scaled by
unit_exponent(unit) ==
    IF unit = <<"K", "B">> THEN 1
    ELSE IF unit = <<"M", "B">> THEN 2
    ELSE IF unit = <<"G", "B">> THEN 3
    ELSE IF unit = <<"T", "B">> THEN 4
    ELSE 0

\* mutant: round(value * 1024 ** k) in place of int(...)
scale_and_round(value, k) ==
    BigDivSmall(BigAdd(BigShift(value.num, k),
                       <<Pow(10, value.dec) \div 2, 0, 0, 0, 0>>),
                Pow(10, value.dec))

\* int(value * 1024 ** k): the product truncated toward zero
scale_and_truncate(value, k) ==
    BigDivSmall(BigShift(value.num, k), Pow(10, value.dec))

\* the outcome is a ValueError raised by float() or a returned byte count
convert_bandwidth_to_bytes(bandwidth_str) ==
    LET s     == Upper(Strip(bandwidth_str))
        match == bandwidth_match(s)
    IN  IF match.matched
        THEN LET value == PyFloat(match.group1)
             IN  IF ~value.ok
                 THEN [raised |-> TRUE, value |-> Zero]
                 ELSE [raised |-> FALSE,
                       value  |-> scale_and_truncate(value,
                                      unit_exponent(match.group2))]
        ELSE [raised |-> FALSE, value |-> Zero]

\* -------------------------------------------------------- format_bandwidth

\* f"{x / 1024 ** k:.2f}" as a count of hundredths: the quotient rounded to
\* two decimals, ties to even (the quotient by a power of two is exact)
hundredths(size_in_bytes, k) ==
    LET m     == BigMulSmall(size_in_bytes, 100)
        whole == IF k = 4 THEN m[5]
                 ELSE IF k = 3 THEN m[4] + Base * m[5]
                 ELSE m[k + 1] + Base * m[k + 2]
        top   == m[k]
        rest  == \E i \in 1..(k - 1) : m[i] # 0
        up    == \/ top > Base \div 2
                 \/ top = Base \div 2 /\ rest
                 \/ top = Base \div 2 /\ ~rest /\ whole % 2 = 1
    IN  IF up THEN whole + 1 ELSE whole

\* mutant: the hundredths written without their leading zero
two_decimals_unpadded(h) == IntToStr(h \div 100) \o <<".">> \o IntToStr(h % 100)

\* "%.2f" of h hundredths
two_decimals(h) == IntToStr(h \div 100) \o <<".">> \o Pad2(h % 100)

format_bandwidth(size_in_bytes) ==
    IF size_in_bytes[5] >= 1
    THEN two_decimals(hundredths(size_in_bytes, 4)) \o <<" ", "T", "B">>
    ELSE IF size_in_bytes[4] >= 1
    THEN two_decimals(hundredths(size_in_bytes, 3)) \o <<" ", "G", "B">>
    ELSE IF size_in_bytes[3] >= 1
    THEN two_decimals(hundredths(size_in_bytes, 2)) \o <<" ", "M", "B">>
    ELSE IF size_in_bytes[2] >= 1
    THEN two_decimals(hundredths(size_in_bytes, 1)) \o <<" ", "K", "B">>
    ELSE IntToStr(size_in_bytes[1]) \o <<" ", "B">>

\* ---------------------------------------------- parse_awstats_monthly_page

Others == <<"O", "t", "h", "e", "r", "s">>

\* mutant: [1:] in place of [2:]
skip_header_rows_one(rows) == SubSeq(rows, 2, Len(rows))

\* rows = table.find_all('tr')[2:]
skip_header_rows(rows) == SubSeq(rows, 3, Len(rows))

\* the two "continue" tests of the row loop, negated: the row is summed
row_is_counted(cols) ==
    /\ Len(cols) >= 6
    /\ LET ip == Strip(cols[1])
       IN  ~(~is_private_ip(ip) /\ ip # Others)

\* the row loop from row i on, with the running total; a ValueError raised
\* by convert_bandwidth_to_bytes leaves the loop at once
RECURSIVE sum_rows(_, _, _)
sum_rows(rows, i, total_bandwidth) ==
    IF i > Len(rows) THEN [raised |-> FALSE, value |-> total_bandwidth]
    ELSE IF ~row_is_counted(rows[i]) THEN sum_rows(rows, i + 1, total_bandwidth)
    ELSE LET bandwidth_str      == Strip(rows[i][6])
             bandwidth_in_bytes == convert_bandwidth_to_bytes(bandwidth_str)
         IN  IF bandwidth_in_bytes.raised
             THEN [raised |-> TRUE, value |-> Zero]
             ELSE sum_rows(rows, i + 1,
                           BigAdd(total_bandwidth, bandwidth_in_bytes.value))

\* the part of parse_awstats_monthly_page after the table was found
extract_private_bandwidth(rows) == sum_rows(skip_header_rows(rows), 1, Zero)

\* mutant: the status of the response is never looked at
raise_for_status_ignored(response) == FALSE

\* response.raise_for_status() raises
raise_for_status(response) == ~response.ok

\* mutant: no "if not table" test, so table.find_all fails on None
parse_awstats_monthly_page_unchecked(response) ==
    IF raise_for_status(response)
    THEN [raised |-> "HTTPError", value |-> Zero]
    ELSE IF ~response.has_table
    THEN [raised |-> "AttributeError", value |-> Zero]
    ELSE LET sum == extract_private_bandwidth(response.rows)
         IN  IF sum.raised THEN [raised |-> "ValueError", value |-> Zero]
             ELSE [raised |-> "none", value |-> sum.value]

\* a response is [ok, has_table, rows]: the HTTP status, whether the page
\* holds a table with border="1", and that table's rows of cell text.
\* The outcome is the exception raised ("none" when it returns) and the total.
parse_awstats_monthly_page(response) ==
    IF raise_for_status(response)
    THEN [raised |-> "HTTPError", value |-> Zero]
    ELSE IF ~response.has_table
    THEN [raised |-> "none", value |-> Zero]
    ELSE LET sum == extract_private_bandwidth(response.rows)
         IN  IF sum.raised THEN [raised |-> "ValueError", value |-> Zero]
             ELSE [raised |-> "none", value |-> sum.value]

\* ------------------------------------------------------------- state

VARIABLES
    \* fetch_and_save_monthly_data and the __main__ block
    start_year, start_month, end_year, end_month,  \* the arguments
    site,               \* what the remote server answers, per month
    pc,                 \* where the run stands
    year, month,        \* the loop variables
    monthly_bandwidth,  \* the dict, as its items in insertion order
    requests_log,       \* every requests.get issued, with its outcome
    iterations,         \* inner-loop iterations begun so far
    error,              \* the uncaught exception, "none" while there is none
    csv_file,           \* contents of monthly_bandwidth_data.csv
    chart_saved,        \* yearly_bandwidth_usage.png was written
    \* a call of is_private_ip: the text and the value returned (<<>> until
    \* the call returns, then <<value>>)
    ip, ip_ret,
    \* calls of format_bandwidth and convert_bandwidth_to_bytes
    codec_pc, literal_parts, size_in_bytes, bandwidth_str, bytes_ret,
    \* a call of the row loop of parse_awstats_monthly_page
    table, total_ret

runVars == <<start_year, start_month, end_year, end_month, site, pc, year,
             month, monthly_bandwidth, requests_log, iterations, error,
             csv_file, chart_saved>>

ipVars == <<ip, ip_ret>>

codecVars == <<codec_pc, literal_parts, size_in_bytes, bandwidth_str, bytes_ret>>

tableVars == <<table, total_ret>>

vars == <<runVars, ipVars, codecVars, tableVars>>

\* the components a specification does not exercise stay at rest
RunIdle ==
    /\ start_year = 0 /\ start_month = 0 /\ end_year = 0 /\ end_month = 0
    /\ site = <<>> /\ pc = "idle" /\ year = 0 /\ month = 0
    /\ monthly_bandwidth = <<>> /\ requests_log = <<>> /\ iterations = 0
    /\ error = "none" /\ csv_file = <<>> /\ chart_saved = FALSE

IpIdle == ip = <<>> /\ ip_ret = <<>>

CodecIdle ==
    /\ codec_pc = "idle" /\ literal_parts = <<>> /\ size_in_bytes = Zero
    /\ bandwidth_str = <<>> /\ bytes_ret = <<>>

TableIdle == table = <<>> /\ total_ret = <<>>

\* ------------------------------------------------- the pages of the site

Row(host, bandwidth) ==
    <<host, <<"1">>, <<"1">>, <<"1">>, <<"-">>, bandwidth>>

HeaderRow ==
    <<<<"H", "o", "s", "t", "s">>, <<"P", "a", "g", "e", "s">>,
      <<"H", "i", "t", "s">>, <<"G", "e", "o">>, <<"I", "P">>,
      <<"B", "a", "n", "d", "w", "i", "d", "t", "h">>>>

PrivateRow ==
    Row(<<"1", "0", ".", "0", ".", "0", ".", "5">>, <<"1", "2", " ", "K", "B">>)

PublicRow ==
    Row(<<"8", ".", "8", ".", "8", ".", "8">>, <<"5", " ", "M", "B">>)

OthersRow == Row(Others, <<"1", " ", "G", "B">>)

\* a private host whose bandwidth cell float() rejects
MalformedRow ==
    Row(<<"1", "9", "2", ".", "1", "6", "8", ".", "1", ".", "1">>,
        <<"1", ".", "2", ".", "3", " ", "K", "B">>)

ExampleRows == <<HeaderRow, HeaderRow, PrivateRow, PublicRow, OthersRow>>

\* the answers a month of the site can give: the response of requests.get
\* as [ok, has_table, rows]
Pages ==
    [ok_page        |-> [ok |-> TRUE, has_table |-> TRUE, rows |-> ExampleRows],
     no_table_page  |-> [ok |-> TRUE, has_table |-> FALSE, rows |-> <<>>],
     malformed_page |-> [ok |-> TRUE, has_table |-> TRUE,
                         rows |-> <<HeaderRow, HeaderRow, PrivateRow, MalformedRow>>],
     error_page     |-> [ok |-> FALSE, has_table |-> FALSE, rows |-> <<>>]]

\* a site answers one month of the year without a table (0: none) and one
\* month with an HTTP error or with a malformed bandwidth cell (0: none)
Sites ==
    {[no_table_month |-> n, bad_month |-> b, bad_kind |-> k] :
        n \in {0, 2},
        b \in {6, 12},
        k \in {"error_page", "malformed_page"}}
    \cup {[no_table_month |-> n, bad_month |-> 0, bad_kind |-> "none"] :
        n \in {0, 2}}

\* the page requests.get(url) receives for the url of (year, month)
PageAt(s, y, m) ==
    IF m = s.bad_month /\ s.bad_kind = "error_page" THEN "error_page"
    ELSE IF m = s.no_table_month THEN "no_table_page"
    ELSE IF m = s.bad_month THEN "malformed_page"
    ELSE "ok_page"

\* ----------------------------------------- fetch_and_save_monthly_data

\* f"{year}-{month_str}" with month_str = f"{month:02d}"
period_key(y, m) == IntToStr(y) \o <<"-">> \o Pad2(m)

\* d[key] = value on a dict kept as its items in insertion order
DictSet(d, key, value) ==
    IF \E i \in 1..Len(d) : d[i].key = key
    THEN [i \in 1..Len(d) |->
             IF d[i].key = key THEN [key |-> key, value |-> value] ELSE d[i]]
    ELSE Append(d, [key |-> key, value |-> value])

\* range(start_year, end_year + 1) still has the value `year` to give
year_in_range == year <= end_year

\* if year == start_year and month < start_month: continue
before_start == year = start_year /\ month < start_month

\* mutant: month >= end_month in place of month > end_month
after_end_inclusive == year = end_year /\ month >= end_month

\* mutant: the loop is left only at the month just after end_month
after_end_exact == year = end_year /\ month = end_month + 1

\* if year == end_year and month > end_month: break
after_end == year = end_year /\ month > end_month

\* the inner for loop takes its next month, or is exhausted after 12
NextMonth ==
    IF month < 12
    THEN /\ month' = month + 1
         /\ UNCHANGED <<pc, year>>
    ELSE /\ pc' = "for_year"
         /\ year' = year + 1
         /\ UNCHANGED month

\* the outer for loop yields a year: the inner loop starts at month 1
EnterYear ==
    /\ pc = "for_year"
    /\ year_in_range
    /\ pc' = "for_month"
    /\ month' = 1
    /\ UNCHANGED <<start_year, start_month, end_year, end_month, site, year,
                   monthly_bandwidth, requests_log, iterations, error,
                   csv_file, chart_saved>>

\* the outer for loop is exhausted
LeaveLoop ==
    /\ pc = "for_year"
    /\ ~year_in_range
    /\ pc' = "write_csv"
    /\ UNCHANGED <<start_year, start_month, end_year, end_month, site, year,
                   month, monthly_bandwidth, requests_log, iterations, error,
                   csv_file, chart_saved>>

\* an iteration that ends at the first "continue"
SkipMonth ==
    /\ pc = "for_month"
    /\ before_start
    /\ iterations' = iterations + 1
    /\ NextMonth
    /\ UNCHANGED <<start_year, start_month, end_year, end_month, site,
                   monthly_bandwidth, requests_log, error, csv_file,
                   chart_saved>>

\* an iteration that ends at the "break"
BreakMonth ==
    /\ pc = "for_month"
    /\ ~before_start
    /\ after_end
    /\ iterations' = iterations + 1
    /\ pc' = "for_year"
    /\ year' = year + 1
    /\ UNCHANGED <<start_year, start_month, end_year, end_month, site, month,
                   monthly_bandwidth, requests_log, error, csv_file,
                   chart_saved>>

\* an iteration that fetches the month's page and sums it.  When
\* parse_awstats_monthly_page raises, nothing catches the exception and the
\* program ends; otherwise the total is stored and the loop goes on
ProcessMonth ==
    /\ pc = "for_month"
    /\ ~before_start
    /\ ~after_end
    /\ iterations' = iterations + 1
    /\ LET response           == PageAt(site, year, month)
           bandwidth_in_bytes == parse_awstats_monthly_page(Pages[response])
       IN  /\ requests_log' = Append(requests_log,
                  [year |-> year, month |-> month, response |-> response])
           /\ IF bandwidth_in_bytes.raised # "none"
              THEN /\ error' = bandwidth_in_bytes.raised
                   /\ pc' = "raised"
                   /\ UNCHANGED <<year, month, monthly_bandwidth>>
              ELSE /\ monthly_bandwidth' = DictSet(monthly_bandwidth,
                          period_key(year, month), bandwidth_in_bytes.value)
                   /\ NextMonth
                   /\ UNCHANGED error
    /\ UNCHANGED <<start_year, start_month, end_year, end_month, site,
                   csv_file, chart_saved>>

CsvHeader == <<"Year-Month", "Bandwidth (Bytes)">>

\* open(csv_filename, 'w'), writeheader(), one writerow per item; then the
\* function returns monthly_bandwidth
WriteCsv ==
    /\ pc = "write_csv"
    /\ csv_file' = <<CsvHeader>> \o
          [i \in 1..Len(monthly_bandwidth) |->
              <<monthly_bandwidth[i].key, monthly_bandwidth[i].value>>]
    /\ pc' = "create_graph"
    /\ UNCHANGED <<start_year, start_month, end_year, end_month, site, year,
                   month, monthly_bandwidth, requests_log, iterations, error,
                   chart_saved>>

\* create_bandwidth_graph(monthly_bandwidth): the chart file is saved
CreateGraph ==
    /\ pc = "create_graph"
    /\ chart_saved' = TRUE
    /\ pc' = "done"
    /\ UNCHANGED <<start_year, start_month, end_year, end_month, site, year,
                   month, monthly_bandwidth, requests_log, iterations, error,
                   csv_file>>

\* the arguments argparse accepts are any integers; these are the ones tried
YearArgs == 2022..2024

MonthArgs == 0..13

\* what monthly_bandwidth_data.csv held before the run
PreviousCsv == <<<<"previous contents">>>>

Init ==
    /\ start_year \in YearArgs /\ end_year \in YearArgs
    /\ start_month \in MonthArgs /\ end_month \in MonthArgs
    /\ site \in Sites
    /\ pc = "for_year"
    /\ year = start_year
    /\ month = 0
    /\ monthly_bandwidth = <<>>
    /\ requests_log = <<>>
    /\ iterations = 0
    /\ error = "none"
    /\ csv_file = PreviousCsv
    /\ chart_saved = FALSE
    /\ IpIdle /\ CodecIdle /\ TableIdle

Next ==
    \/ EnterYear /\ UNCHANGED <<ipVars, codecVars, tableVars>>
    \/ LeaveLoop /\ UNCHANGED <<ipVars, codecVars, tableVars>>
    \/ SkipMonth /\ UNCHANGED <<ipVars, codecVars, tableVars>>
    \/ BreakMonth /\ UNCHANGED <<ipVars, codecVars, tableVars>>
    \/ ProcessMonth /\ UNCHANGED <<ipVars, codecVars, tableVars>>
    \/ WriteCsv /\ UNCHANGED <<ipVars, codecVars, tableVars>>
    \/ CreateGraph /\ UNCHANGED <<ipVars, codecVars, tableVars>>

Spec == Init /\ [][Next]_vars

\* ------------------------------------------------ a call of is_private_ip

\* the texts tried are lead g1 "." g2 sep g3 "." g4 trail
IpGroups1 ==
    {<<"1", "0">>, <<"0", "1", "0">>, <<"1", "7", "2">>, <<"1", "9", "2">>,
     <<"9">>, <<"1", "1">>, <<"1", "0", "0", "0">>, <<>>, <<"a">>}

IpGroups2 ==
    {<<"0">>, <<"1", "5">>, <<"1", "6">>, <<"3", "1">>, <<"3", "2">>,
     <<"1", "6", "8">>, <<"1", "6", "9">>, <<"9", "9", "9">>, <<"0", "1", "6">>}

IpGroups3 == {<<"0">>, <<"3", "0", "0">>}

IpGroups4 == {<<"1">>, <<"2", "5", "5">>, <<"2", "5", "6">>, <<"1", "0", "0", "0">>}

IpSeparators == {<<".">>, <<>>, <<".", ".">>}

IpLeads == {<<>>, <<" ">>}

IpTrails == {<<>>, <<"\n">>, <<" ">>, <<".", "7">>}

IpText(p) ==
    p.lead \o p.g1 \o <<".">> \o p.g2 \o p.sep \o p.g3 \o <<".">> \o p.g4
        \o p.trail

InitIp ==
    /\ \E p \in [lead : IpLeads, g1 : IpGroups1, g2 : IpGroups2,
                  sep : IpSeparators, g3 : IpGroups3, g4 : IpGroups4,
                  trail : IpTrails] : ip = IpText(p)
    /\ ip_ret = <<>>
    /\ RunIdle /\ CodecIdle /\ TableIdle

CallIsPrivateIp ==
    /\ ip_ret = <<>>
    /\ ip_ret' = <<is_private_ip(ip)>>
    /\ UNCHANGED ip

NextIp == CallIsPrivateIp /\ UNCHANGED <<runVars, codecVars, tableVars>>

SpecIp == InitIp /\ [][NextIp]_vars

\* ------------- calls of convert_bandwidth_to_bytes and format_bandwidth

\* the literals tried are lead whole dot frac extra gap unit trail
LiteralWholes ==
    {<<>>, <<"0">>, <<"1">>, <<"1", "2">>, <<"2">>, <<"1", "0", "2", "3">>}

LiteralFracs ==
    {<<>>, <<"5">>, <<"5", "0">>, <<"9", "9">>, <<"0", "0", "1">>}

LiteralUnits ==
    {<<"T", "B">>, <<"G", "B">>, <<"M", "B">>, <<"K", "B">>, <<"B">>,
     <<"k", "b">>, <<"M", "b">>, <<"b">>, <<>>, <<"X">>}

LiteralParts ==
    {p \in [lead  : {<<>>, <<" ">>},
            whole : LiteralWholes,
            dot   : {<<>>, <<".">>},
            frac  : LiteralFracs,
            extra : {<<>>, <<".">>, <<".", "3">>},
            gap   : {<<>>, <<" ">>},
            unit  : LiteralUnits,
            trail : {<<>>, <<"\n">>, <<"X">>}] :
        p.dot = <<>> => p.frac = <<>>}

LiteralText(p) ==
    p.lead \o p.whole \o p.dot \o p.frac \o p.extra \o p.gap \o p.unit
        \o p.trail

\* the byte counts tried: every limb below the top from LimbSamples
LimbSamples == {0, 1, 5, 64, 512, 513, 1023}

MaxTB == 2

Sizes == LimbSamples \X LimbSamples \X LimbSamples \X LimbSamples \X (0..MaxTB)

InitCodec ==
    /\ \/ /\ codec_pc = "convert"
          /\ literal_parts \in LiteralParts
          /\ bandwidth_str = LiteralText(literal_parts)
          /\ size_in_bytes = Zero
       \/ /\ codec_pc = "format"
          /\ size_in_bytes \in Sizes
          /\ literal_parts = <<>>
          /\ bandwidth_str = <<>>
    /\ bytes_ret = <<>>
    /\ RunIdle /\ IpIdle /\ TableIdle

\* convert_bandwidth_to_bytes(bandwidth_str) on a literal
CallConvert ==
    /\ codec_pc = "convert"
    /\ bytes_ret' = <<convert_bandwidth_to_bytes(bandwidth_str)>>
    /\ codec_pc' = "converted"
    /\ UNCHANGED <<literal_parts, size_in_bytes, bandwidth_str>>

\* format_bandwidth(size_in_bytes)
CallFormat ==
    /\ codec_pc = "format"
    /\ bandwidth_str' = format_bandwidth(size_in_bytes)
    /\ codec_pc' = "formatted"
    /\ UNCHANGED <<literal_parts, size_in_bytes, bytes_ret>>

\* convert_bandwidth_to_bytes on what format_bandwidth returned
CallConvertFormatted ==
    /\ codec_pc = "formatted"
    /\ bytes_ret' = <<convert_bandwidth_to_bytes(bandwidth_str)>>
    /\ codec_pc' = "round_trip"
    /\ UNCHANGED <<literal_parts, size_in_bytes, bandwidth_str>>

NextCodec ==
    \/ CallConvert /\ UNCHANGED <<runVars, ipVars, tableVars>>
    \/ CallFormat /\ UNCHANGED <<runVars, ipVars, tableVars>>
    \/ CallConvertFormatted /\ UNCHANGED <<runVars, ipVars, tableVars>>

SpecCodec == InitCodec /\ [][NextCodec]_vars

\* ---------------------- a call of the row loop of parse_awstats_monthly_page

\* a private host with fewer than 6 cells
ShortRow ==
    <<<<"1", "0", ".", "0", ".", "0", ".", "5">>, <<"1">>, <<"1">>,
      <<"1", "2", " ", "K", "B">>>>

\* cells as the HTML holds them, with whitespace around the text
PaddedPrivateRow ==
    Row(<<" ", "1", "7", "2", ".", "1", "6", ".", "0", ".", "9", "\n">>,
        <<" ", "2", ".", "5", " ", "m", "b", " ">>)

PaddedOthersRow == Row(<<"\n", " ">> \o Others \o <<" ">>, <<"3", " ", "B">>)

LeadingRows == {HeaderRow, PrivateRow}

DataRows ==
    {PrivateRow, PublicRow, OthersRow, MalformedRow, ShortRow,
     PaddedPrivateRow, PaddedOthersRow}

MaxDataRows == 3

RECURSIVE SeqsUpTo(_, _)
SeqsUpTo(S, n) ==
    IF n = 0 THEN {<<>>}
    ELSE LET shorter == SeqsUpTo(S, n - 1)
         IN  shorter \cup {Append(q, x) : q \in {r \in shorter : Len(r) = n - 1},
                                           x \in S}

Tables ==
    SeqsUpTo(LeadingRows, 1)
    \cup {<<a, b>> \o d : a \in LeadingRows, b \in LeadingRows,
                          d \in SeqsUpTo(DataRows, MaxDataRows)}

InitTable ==
    /\ table \in Tables
    /\ total_ret = <<>>
    /\ RunIdle /\ IpIdle /\ CodecIdle

CallExtract ==
    /\ total_ret = <<>>
    /\ total_ret' = <<extract_private_bandwidth(table)>>
    /\ UNCHANGED table

NextTable == CallExtract /\ UNCHANGED <<runVars, ipVars, codecVars>>

SpecTable == InitTable /\ [][NextTable]_vars

\* ======================================================== the properties

\* ---- about fetch_and_save_monthly_data (specification Spec)

\* months in 1..12 and (start_year, start_month) <= (end_year, end_month)
ValidRange ==
    /\ start_month \in 1..12 /\ end_month \in 1..12
    /\ \/ start_year < end_year
       \/ start_year = end_year /\ start_month <= end_month

\* months in 1..12 and (start_year, start_month) > (end_year, end_month)
ReversedRange ==
    /\ start_month \in 1..12 /\ end_month \in 1..12
    /\ \/ start_year > end_year
       \/ start_year = end_year /\ start_month > end_month

\* the calendar months counted from year 0
MonthIndex(y, m) == 12 * y + (m - 1)

PeriodOfIndex(n) == <<n \div 12, (n % 12) + 1>>

\* the (year, month) a key "YYYY-MM" names, read back from its text
KeyPeriod(key) ==
    LET fields == Split(key, "-")
    IN  IF Len(fields) = 2 /\ Len(fields[2]) = 2
           /\ \A i \in 1..2 : \A k \in 1..Len(fields[i]) : fields[i][k] \in Digits
        THEN <<DecValue(fields[1]), DecValue(fields[2])>>
        ELSE <<-1, -1>>

\* the periods the range asks for
RequestedPeriods ==
    {q \in (start_year..end_year) \X (1..12) :
        /\ ~(q[1] = start_year /\ q[2] < start_month)
        /\ ~(q[1] = end_year /\ q[2] > end_month)}

LoopFinished == pc \in {"write_csv", "create_graph", "done"}

Returned == pc \in {"create_graph", "done"}

\* C1: for a valid range, the keys of the aggregate, in insertion order, are
\* at every moment the first calendar months of the range: key i names the
\* month i - 1 after the start month (so the first is the start period, each
\* is the calendar successor of the one before, December being followed by
\* January of the next year, and none repeats); and once the loop is over,
\* which takes every fetch to have succeeded, they run up to the end period.
C1_KeysAreTheCalendarMonths ==
    ValidRange =>
        LET first == MonthIndex(start_year, start_month)
            last  == MonthIndex(end_year, end_month)
            n     == Len(monthly_bandwidth)
        IN  /\ n <= last - first + 1
            /\ \A i \in 1..n :
                   KeyPeriod(monthly_bandwidth[i].key) = PeriodOfIndex(first + i - 1)
            /\ LoopFinished => n = last - first + 1

Key_2023_11 == <<"2", "0", "2", "3", "-", "1", "1">>

Key_2023_12 == <<"2", "0", "2", "3", "-", "1", "2">>

Key_2024_01 == <<"2", "0", "2", "4", "-", "0", "1">>

Key_2024_02 == <<"2", "0", "2", "4", "-", "0", "2">>

\* the run for 2023-11 .. 2024-02 returns exactly the four keys of the example
C1_Witness ==
    /\ start_year = 2023 /\ start_month = 11 /\ end_year = 2024 /\ end_month = 2
    /\ pc = "done"
    /\ [i \in 1..Len(monthly_bandwidth) |-> monthly_bandwidth[i].key]
           = <<Key_2023_11, Key_2023_12, Key_2024_01, Key_2024_02>>

FetchFailed ==
    \E i \in 1..Len(requests_log) : requests_log[i].response = "error_page"

\* C2: once a fetch has failed the run has stopped at that period (the failed
\* request is the last one issued, no step follows), the CSV file still has
\* its previous contents and no chart exists; and the CSV is written or the
\* chart saved only when every requested period was fetched successfully.
C2_FailedFetchAborts ==
    /\ FetchFailed =>
           /\ pc = "raised" /\ error = "HTTPError"
           /\ requests_log[Len(requests_log)].response = "error_page"
           /\ \A i \in 1..(Len(requests_log) - 1) :
                  requests_log[i].response # "error_page"
           /\ csv_file = PreviousCsv
           /\ ~chart_saved
    /\ pc = "raised" => ~ENABLED Next /\ csv_file = PreviousCsv /\ ~chart_saved
    /\ (csv_file # PreviousCsv \/ chart_saved) =>
           /\ ~FetchFailed
           /\ {<<requests_log[i].year, requests_log[i].month>> :
                   i \in 1..Len(requests_log)} = RequestedPeriods

\* a fetch failed after some periods had already been stored
C2_Witness ==
    /\ pc = "raised"
    /\ FetchFailed
    /\ Len(monthly_bandwidth) >= 2
    /\ csv_file = PreviousCsv

NoTableAt(i) == requests_log[i].response = "no_table_page"

\* C7: a page without a bordered table is no error: the extractor returns 0
\* for it, its key is recorded with value 0 and the run is not stopped by it
\* (a site whose only fault is missing tables never stops a run); and the
\* CSV, once written, has one row for every period of the range, with 0 for
\* the periods whose page had no table.
C7_MissingTableIsZero ==
    /\ \A i \in 1..Len(requests_log) :
           NoTableAt(i) =>
               /\ \E j \in 1..Len(monthly_bandwidth) :
                      monthly_bandwidth[j] =
                          [key   |-> period_key(requests_log[i].year,
                                                requests_log[i].month),
                           value |-> Zero]
               /\ i = Len(requests_log) => pc # "raised"
    /\ site.bad_month = 0 => pc # "raised"
    /\ Returned =>
           /\ Len(csv_file) = 1 + Cardinality(RequestedPeriods)
           /\ \A q \in RequestedPeriods :
                  \E r \in 2..Len(csv_file) : KeyPeriod(csv_file[r][1]) = q
           /\ \A i \in 1..Len(requests_log) :
                  NoTableAt(i) =>
                      csv_file[i + 1] =
                          <<period_key(requests_log[i].year,
                                       requests_log[i].month), Zero>>

\* a run met a page without a table, fetched further periods and finished
C7_Witness ==
    /\ pc = "done"
    /\ \E i \in 1..(Len(requests_log) - 1) : NoTableAt(i)
    /\ Len(csv_file) = 1 + Len(requests_log)

\* the loop bounds and what a reversed range leaves behind
C10_Bounds ==
    /\ iterations <= 12 * Max(0, end_year - start_year + 1)
    /\ Len(requests_log) <= iterations
    /\ ReversedRange =>
           /\ requests_log = <<>>
           /\ monthly_bandwidth = <<>>
           /\ pc # "raised"
           /\ Returned => csv_file = <<CsvHeader>>

\* a bound on the steps a run has left: the months of the current year still
\* to visit (for_month), 14 for each year not yet left, and the three steps
\* after the loop
StepsLeft ==
    IF pc = "for_month" THEN 3 + 14 * (end_year - year) + (13 - month)
    ELSE IF pc = "for_year" THEN 3 + 14 * Max(0, end_year - year + 1)
    ELSE IF pc = "write_csv" THEN 2
    ELSE IF pc = "create_graph" THEN 1
    ELSE 0

\* C10: a run always terminates (every step lowers StepsLeft, which is never
\* negative); for a reversed range no fetch is ever issued, the aggregate
\* stays empty, nothing is raised and the CSV is overwritten with the header
\* row alone; and for all arguments the loop begins at most
\* 12 * max(0, end_year - start_year + 1) iterations and issues at most one
\* fetch per iteration.
C10_ReversedRangeFetchesNothing ==
    /\ [](C10_Bounds /\ StepsLeft >= 0)
    /\ [][StepsLeft' < StepsLeft]_vars

\* a reversed range within one year: the loop ran, fetched nothing, and the
\* run ended with a header-only CSV
C10_Witness ==
    /\ ReversedRange
    /\ start_year = end_year
    /\ iterations > 0
    /\ pc = "done"
    /\ csv_file = <<CsvHeader>>
    /\ requests_log = <<>>

\* ---- about is_private_ip (specification SpecIp)

IsOctetText(g) == Len(g) \in 1..3 /\ \A k \in 1..Len(g) : g[k] \in Digits

\* the text is four dot-separated groups of 1 to 3 decimal digits
FourGroups(text) ==
    LET groups == Split(text, ".")
    IN  Len(groups) = 4 /\ \A i \in 1..4 : IsOctetText(groups[i])

\* C5: on four dot-separated groups of 1 to 3 digits, is_private_ip is true
\* exactly when the first group's value is 10, or it is 172 and the second's
\* is in 16..31, or it is 192 and the second's is 168, whatever the third and
\* fourth groups are.
C5_PrivateRanges ==
    (ip_ret # <<>> /\ FourGroups(ip)) =>
        LET first  == DecValue(Split(ip, ".")[1])
            second == DecValue(Split(ip, ".")[2])
        IN  ip_ret[1] <=> \/ first = 10
                          \/ first = 172 /\ second \in 16..31
                          \/ first = 192 /\ second = 168

\* 172.31.300.256 is classified, and as private
C5_Witness ==
    /\ ip = <<"1", "7", "2", ".", "3", "1", ".", "3", "0", "0", ".", "2", "5", "6">>
    /\ FourGroups(ip)
    /\ ip_ret = <<TRUE>>

\* exactly four dot-separated octets, each in 0..255, and nothing else
WellFormedIPv4(text) ==
    /\ FourGroups(text)
    /\ \A i \in 1..4 : DecValue(Split(text, ".")[i]) <= 255

\* C6: is_private_ip is false for every text that is not a well-formed IPv4
\* address (an octet above 255, or text after the fourth octet such as a
\* trailing newline, included).
C6_MalformedIsNeverPrivate ==
    (ip_ret # <<>> /\ ~WellFormedIPv4(ip)) => ip_ret = <<FALSE>>

\* ---- about the codec (specification SpecCodec)

\* the magnitude of the literal as written
Magnitude(p) == p.whole \o p.dot \o p.frac \o p.extra

\* the magnitude is a decimal number: digits with at most one dot
IsDecimal(p) ==
    LET m == Magnitude(p)
    IN  /\ Cardinality({i \in 1..Len(m) : m[i] = "."}) <= 1
        /\ \E i \in 1..Len(m) : m[i] \in Digits

\* B, KB, MB, GB, TB scale by 1024^0 .. 1024^4
UnitNames == << <<"B">>, <<"K", "B">>, <<"M", "B">>, <<"G", "B">>, <<"T", "B">> >>

HasUnit(p) == \E k \in 1..5 : Upper(p.unit) = UnitNames[k]

UnitPower(p) == (CHOOSE k \in 1..5 : Upper(p.unit) = UnitNames[k]) - 1

\* C4: convert_bandwidth_to_bytes never raises, whatever the text, and
\* returns 0 when the text does not start with a decimal number, optional
\* whitespace and a unit.
C4_NeverRaises ==
    codec_pc = "converted" =>
        /\ ~bytes_ret[1].raised
        /\ ~(IsDecimal(literal_parts) /\ HasUnit(literal_parts))
               => bytes_ret[1].value = Zero

\* the digits of the magnitude and how many of them follow the dot
MagnitudeDigits(p) == SelectSeq(Magnitude(p), LAMBDA c : c \in Digits)

MagnitudeDecimals(p) ==
    LET m == Magnitude(p)
    IN  IF \E i \in 1..Len(m) : m[i] = "."
        THEN Len(m) - (CHOOSE i \in 1..Len(m) : m[i] = ".")
        ELSE 0

\* a decimal magnitude, optional whitespace, a unit in any letter case, and
\* only whitespace around them
IsLiteral(p) ==
    /\ IsDecimal(p) /\ HasUnit(p)
    /\ \A k \in 1..Len(p.trail) : p.trail[k] \in Whitespace

One == <<1, 0, 0, 0, 0>>

\* a byte count below 2^31 as a number
ToInt(b) == b[1] + Base * (b[2] + Base * (b[3] + Base * b[4]))

LargestUnit(x) ==
    CHOOSE k \in 0..4 :
        /\ k > 0 => BigLeq(BigShift(1, k), x)
        /\ \A j \in (k + 1)..4 : ~BigLeq(BigShift(1, j), x)

\* C9: convert_bandwidth_to_bytes(format_bandwidth(x)) is x itself when
\* x < 1024 and otherwise differs from x by less than 0.01 of the unit
\* format_bandwidth chose, the largest one that is at most x;
\* format_bandwidth gives "0 B" for 0, "1.50 KB" for 1536 and "1.00 GB" for
\* 1073741824.
C9_RoundTrip ==
    /\ codec_pc \in {"formatted", "round_trip"} =>
           LET k    == LargestUnit(size_in_bytes)
               unit == <<" ">> \o UnitNames[k + 1]
           IN  /\ SubSeq(bandwidth_str, Len(bandwidth_str) - Len(unit) + 1,
                         Len(bandwidth_str)) = unit
               /\ size_in_bytes = Zero => bandwidth_str = <<"0", " ", "B">>
               /\ size_in_bytes = <<512, 1, 0, 0, 0>>
                      => bandwidth_str = <<"1", ".", "5", "0", " ", "K", "B">>
               /\ size_in_bytes = <<0, 0, 0, 1, 0>>
                      => bandwidth_str = <<"1", ".", "0", "0", " ", "G", "B">>
    /\ codec_pc = "round_trip" =>
           LET k == LargestUnit(size_in_bytes)
               r == bytes_ret[1]
               x == BigMulSmall(size_in_bytes, 100)
               y == BigMulSmall(r.value, 100)
           IN  /\ ~r.raised
               /\ k = 0 => r.value = size_in_bytes
               /\ k > 0 => /\ BigLess(x, BigAdd(y, BigShift(1, k)))
                           /\ BigLess(y, BigAdd(x, BigShift(1, k)))

\* 1088 bytes are 1.0625 KB, rendered "1.06 KB" and read back as 1085
C9_Witness ==
    /\ codec_pc = "round_trip"
    /\ size_in_bytes = <<64, 1, 0, 0, 0>>
    /\ bandwidth_str = <<"1", ".", "0", "6", " ", "K", "B">>
    /\ bytes_ret = <<[raised |-> FALSE, value |-> <<61, 1, 0, 0, 0>>]>>

\* ---- about the row loop (specification SpecTable)

\* the rows the sum is taken over: not among the first two, at least 6
\* cells, and cell 0 either "Others" or a private address
Qualifies(t, i, token) ==
    /\ i > 2
    /\ Len(t[i]) >= 6
    /\ token = Others \/ is_private_ip(token)

RECURSIVE SumOfCells(_, _)
SumOfCells(t, rows) ==
    IF rows = {} THEN Zero
    ELSE LET i == CHOOSE j \in rows : TRUE
         IN  BigAdd(convert_bandwidth_to_bytes(t[i][6]).value,
                    SumOfCells(t, rows \ {i}))

\* C3 as stated, with cell 0 taken as it stands in the table: a total that
\* is returned is the sum of parse(cell 5) over the rows that qualify.
C3_SumOverRawCells ==
    (total_ret # <<>> /\ ~total_ret[1].raised) =>
        total_ret[1].value =
            SumOfCells(table, {i \in 1..Len(table) :
                                  Qualifies(table, i, table[i][1])})

\* C3, amended: the total is the sum of parse(cell 5) over exactly the rows
\* that are not among the first two, have at least 6 cells and whose cell 0,
\* with the whitespace around it removed, is "Others" or is_private; every
\* other row contributes nothing and the total is 0 when no row qualifies.
\* The extractor raises exactly when parse raises on cell 5 of such a row.
\* Two header rows followed by the rows 10.0.0.5 / 12 KB, 8.8.8.8 / 5 MB
\* and Others / 1 GB give 1073754112.
C3_SumOverStrippedCells ==
    total_ret # <<>> =>
        LET rows == {i \in 1..Len(table) :
                        Len(table[i]) >= 1
                        /\ Qualifies(table, i, Strip(table[i][1]))}
        IN  /\ total_ret[1].raised <=>
                   \E i \in rows : convert_bandwidth_to_bytes(table[i][6]).raised
            /\ ~total_ret[1].raised =>
                   total_ret[1].value = SumOfCells(table, rows)
            /\ rows = {} => total_ret[1].value = Zero
            /\ table = ExampleRows => ToInt(total_ret[1].value) = 1073754112

\* a table whose second row is a private host (skipped as a header) and
\* whose data rows hold a whitespace-padded private host, a public host and
\* "Others": 2.5 MB + 1 GB
C3_Witness ==
    /\ table = <<HeaderRow, PrivateRow, PaddedPrivateRow, PublicRow, OthersRow>>
    /\ total_ret = <<[raised |-> FALSE, value |-> <<0, 512, 2, 1, 0>>]>>

====
